---- MODULE Spec2Model ----
(***************************************************************************)
(* Model of the bit-level I/O engine of src/Lib/TLibCommon/TComBitStream.cpp *)
(* TComOutputBitstream (the writer) and TComInputBitstream (the reader).     *)
(*                                                                           *)
(* A UInt / unsigned int is a 32-bit word, kept as the tuple of its 32 bits, *)
(* most significant first (w[1] is bit 31, w[32] is bit 0), so that every    *)
(* shift, mask and truncation of the source keeps its width.  A byte         *)
(* (uint8_t, unsigned char) is an integer in 0..255.                         *)
(***************************************************************************)
EXTENDS Integers, Sequences, FiniteSets, TLC

VARIABLES
  w,          \* the two writers: w["A"], w["B"], each [m_fifo, m_held_bits, m_num_held_bits]
  wlog,       \* history: per writer, the calls made on it since construction
  r,          \* the reader: [m_fifo, m_fifo_idx, m_held_bits, m_num_held_bits]
  ruiBits,    \* the out-parameter of the last read / pseudoRead
  rlog,       \* history: the values the reads of the round trip returned, in order
  last,       \* history: the last call made on the reader (see NoCall)
  consumed,   \* history: the sum of the widths of the reads made so far
  pc,         \* "writing", "reading" (a reader is constructed), "aborted" (an assert failed)
  wideShift   \* what the build makes of a shift by the full width of the operand

vars == <<w, wlog, r, ruiBits, rlog, last, consumed, pc, wideShift>>

\* ---------------------------------------------------------------- bounds
MaxOps == 3        \* calls made on writer A
MaxSrcOps == 1     \* calls made on writer B
MaxBuf == 5        \* bytes of a buffer handed to a reader

\* ---------------------------------------------------------------- 32-bit words
Pow2(k) == 2 ^ k

Zero32 == [i \in 1..32 |-> 0]

\* the word of a non-negative int below 2^31
U32(n) == [i \in 1..32 |-> IF i = 1 THEN 0 ELSE (n \div Pow2(32 - i)) % 2]

\* (unsigned char) x : the low eight bits
U8(x) == x[25] * 128 + x[26] * 64 + x[27] * 32 + x[28] * 16
           + x[29] * 8 + x[30] * 4 + x[31] * 2 + x[32]

BitOr(x, y) == [i \in 1..32 |-> IF x[i] = 1 \/ y[i] = 1 THEN 1 ELSE 0]
BitAnd(x, y) == [i \in 1..32 |-> IF x[i] = 1 /\ y[i] = 1 THEN 1 ELSE 0]
BitNot(x) == [i \in 1..32 |-> 1 - x[i]]

ShlBy(x, k) == [i \in 1..32 |-> IF i + k <= 32 THEN x[i + k] ELSE 0]

\* x << k.  A shift by 32 or more is undefined: the build either takes the
\* count modulo 32 (x86 shl) or shifts every bit out.
Shl(x, k) ==
  IF k < 32 THEN ShlBy(x, k)
  ELSE IF wideShift = "wrap" THEN ShlBy(x, k % 32) ELSE Zero32

\* x >> k, k < 32
Shr(x, k) == [i \in 1..32 |-> IF i - k >= 1 THEN x[i - k] ELSE 0]

\* ---------------------------------------------------------------- the writer
Writers == {"A", "B"}

\* TComOutputBitstream::TComOutputBitstream, clear
\* mutant: only the byte vector is cleared
clear_KeepsHeld(s) == [s EXCEPT !.m_fifo = << >>]

clear(s) == [m_fifo |-> << >>, m_held_bits |-> 0, m_num_held_bits |-> 0]

NewWriter == clear([m_fifo |-> << >>, m_held_bits |-> 0, m_num_held_bits |-> 0])

getByteStreamLength(s) == Len(s.m_fifo)

\* TComBitStream.h
getNumberOfWrittenBits(s) == Len(s.m_fifo) * 8 + s.m_num_held_bits

\* TComBitStream.h
getNumBitsUntilByteAligned(s) == (8 - s.m_num_held_bits) % 8

\* mutant: every case of the switch ends in a break
PushBytes_Break(write_bits, k) ==
  << U8(Shr(write_bits, 8 * (k - 1))) >>

\* mutant: the switch has no case 4, so a write that completes 4 bytes pushes none
PushBytes_NoCase4(write_bits, k) ==
  IF k = 4 THEN << >> ELSE [j \in 1..k |-> U8(Shr(write_bits, 8 * (k - j)))]

\* the push_back calls of the switch (num_total_bits >> 3), which falls through
PushBytes(write_bits, k) ==
  [j \in 1..k |-> U8(Shr(write_bits, 8 * (k - j)))]

\* mutant: topword is not rounded down to a multiple of 8
write_TopwordUnmasked(s, uiBits, uiNumberOfBits) ==
  IF ~(uiNumberOfBits <= 32) THEN [ok |-> FALSE, s |-> s]
  ELSE
  LET num_total_bits == uiNumberOfBits + s.m_num_held_bits
      next_num_held_bits == num_total_bits % 8
      next_held_bits == U8(Shl(uiBits, 8 - next_num_held_bits))
  IN  [ok |-> TRUE, s |->
      IF num_total_bits \div 8 = 0
      THEN [s EXCEPT !.m_held_bits = U8(BitOr(U32(@), U32(next_held_bits))),
                     !.m_num_held_bits = next_num_held_bits]
      ELSE LET topword == uiNumberOfBits - next_num_held_bits
               write_bits == BitOr(Shl(U32(s.m_held_bits), topword),
                                   Shr(uiBits, next_num_held_bits))
           IN  [m_fifo |-> s.m_fifo \o PushBytes(write_bits, num_total_bits \div 8),
                m_held_bits |-> next_held_bits,
                m_num_held_bits |-> next_num_held_bits]]

\* mutant: a write that completes no byte overwrites m_held_bits instead of OR-ing into it
write_HeldOverwritten(s, uiBits, uiNumberOfBits) ==
  IF ~(uiNumberOfBits <= 32) THEN [ok |-> FALSE, s |-> s]
  ELSE
  LET num_total_bits == uiNumberOfBits + s.m_num_held_bits
      next_num_held_bits == num_total_bits % 8
      next_held_bits == U8(Shl(uiBits, 8 - next_num_held_bits))
  IN  [ok |-> TRUE, s |->
      IF num_total_bits \div 8 = 0
      THEN [s EXCEPT !.m_held_bits = next_held_bits,
                     !.m_num_held_bits = next_num_held_bits]
      ELSE LET topword == ((uiNumberOfBits - next_num_held_bits) \div 8) * 8
               write_bits == BitOr(Shl(U32(s.m_held_bits), topword),
                                   Shr(uiBits, next_num_held_bits))
           IN  [m_fifo |-> s.m_fifo \o PushBytes(write_bits, num_total_bits \div 8),
                m_held_bits |-> next_held_bits,
                m_num_held_bits |-> next_num_held_bits]]

\* write: [ok |-> the assert held, s |-> the writer afterwards]
write(s, uiBits, uiNumberOfBits) ==
  IF ~(uiNumberOfBits <= 32) THEN [ok |-> FALSE, s |-> s]
  ELSE
  LET num_total_bits == uiNumberOfBits + s.m_num_held_bits
      next_num_held_bits == num_total_bits % 8
      next_held_bits == U8(Shl(uiBits, 8 - next_num_held_bits))
  IN  [ok |-> TRUE, s |->
      IF num_total_bits \div 8 = 0
      THEN [s EXCEPT !.m_held_bits = U8(BitOr(U32(@), U32(next_held_bits))),
                     !.m_num_held_bits = next_num_held_bits]
      ELSE LET topword == ((uiNumberOfBits - next_num_held_bits) \div 8) * 8
               write_bits == BitOr(Shl(U32(s.m_held_bits), topword),
                                   Shr(uiBits, next_num_held_bits))
           IN  [m_fifo |-> s.m_fifo \o PushBytes(write_bits, num_total_bits \div 8),
                m_held_bits |-> next_held_bits,
                m_num_held_bits |-> next_num_held_bits]]

\* mutant: the padding written is 0, not (1 << num_bits) - 1
writeAlignOne_PadsZero(s) ==
  LET num_bits == getNumBitsUntilByteAligned(s)
  IN  write(s, Zero32, num_bits).s

writeAlignOne(s) ==
  LET num_bits == getNumBitsUntilByteAligned(s)
  IN  write(s, U32(Pow2(num_bits) - 1), num_bits).s

\* mutant: the early return for an aligned writer is missing
writeAlignZero_NoGuard(s) ==
  [m_fifo |-> Append(s.m_fifo, s.m_held_bits),
   m_held_bits |-> 0,
   m_num_held_bits |-> 0]

\* mutant: the held state is not reset after the push_back
writeAlignZero_KeepsHeld(s) ==
  IF 0 = s.m_num_held_bits THEN s
  ELSE [s EXCEPT !.m_fifo = Append(s.m_fifo, s.m_held_bits)]

\* mutant: the held byte is dropped, not pushed
writeAlignZero_NoPush(s) ==
  IF 0 = s.m_num_held_bits THEN s
  ELSE [s EXCEPT !.m_held_bits = 0, !.m_num_held_bits = 0]

writeAlignZero(s) ==
  IF 0 = s.m_num_held_bits THEN s
  ELSE [m_fifo |-> Append(s.m_fifo, s.m_held_bits),
        m_held_bits |-> 0,
        m_num_held_bits |-> 0]

\* vector::insert(begin() + pos, src.begin(), src.end())
VectorInsert(v, pos, src) ==
  SubSeq(v, 1, pos) \o src \o SubSeq(v, pos + 1, Len(v))

\* mutant: the bytes are inserted at end(), not at begin() + pos
insertAt_AtEnd(s, src, pos) ==
  LET src_bits == getNumberOfWrittenBits(src)
  IN  IF 0 # src_bits % 8 THEN [ok |-> FALSE, s |-> s, src |-> src]
      ELSE [ok |-> TRUE,
            s |-> [s EXCEPT !.m_fifo = VectorInsert(s.m_fifo, Len(s.m_fifo), src.m_fifo)],
            src |-> src]

\* mutant: the source's alignment is not asserted
insertAt_NoAssert(s, src, pos) ==
  [ok |-> TRUE,
   s |-> [s EXCEPT !.m_fifo = VectorInsert(s.m_fifo, pos, src.m_fifo)],
   src |-> src]

\* insertAt: [ok |-> the assert held, s |-> this afterwards, src |-> src afterwards]
insertAt(s, src, pos) ==
  LET src_bits == getNumberOfWrittenBits(src)
  IN  IF 0 # src_bits % 8 THEN [ok |-> FALSE, s |-> s, src |-> src]
      ELSE [ok |-> TRUE,
            s |-> [s EXCEPT !.m_fifo = VectorInsert(s.m_fifo, pos, src.m_fifo)],
            src |-> src]

\* ---------------------------------------------------------------- the reader
\* TComInputBitstream::TComInputBitstream
NewReader(buf) ==
  [m_fifo |-> buf, m_fifo_idx |-> 0, m_held_bits |-> 0, m_num_held_bits |-> 0]

\* TComBitStream.h
getNumBitsLeft(s) == 8 * (Len(s.m_fifo) - s.m_fifo_idx) + s.m_num_held_bits

Min(a, b) == IF a <= b THEN a ELSE b

\* mutant: the bytes are assembled least significant first
RECURSIVE LoadWord_LittleEndian(_, _, _)
LoadWord_LittleEndian(fifo, idx, k) ==
  IF k = 0 THEN U32(fifo[idx + 1])
  ELSE BitOr(U32(fifo[idx + 1]), Shl(LoadWord_LittleEndian(fifo, idx + 1, k - 1), 8))

\* the switch (num_bytes_to_load) of read, which falls through: the bytes at
\* idx, idx+1, ... (0-based) are or-ed in at shifts 8*k, 8*(k-1), ..., 0
RECURSIVE LoadWord(_, _, _)
LoadWord(fifo, idx, k) ==
  IF k = 0 THEN U32(fifo[idx + 1])
  ELSE BitOr(Shl(U32(fifo[idx + 1]), 8 * k), LoadWord(fifo, idx + 1, k - 1))

\* mutant: the bits of m_held_bits consumed by earlier reads are not masked off
read_StaleHeld(s, uiNumberOfBits) ==
  IF ~(uiNumberOfBits <= 32) THEN [ok |-> FALSE, s |-> s, ruiBits |-> Zero32]
  ELSE
  IF uiNumberOfBits <= s.m_num_held_bits
  THEN LET retval == BitAnd(Shr(U32(s.m_held_bits), s.m_num_held_bits - uiNumberOfBits),
                            BitNot(Shl(U32(255), uiNumberOfBits)))
       IN  [ok |-> TRUE,
            s |-> [s EXCEPT !.m_num_held_bits = @ - uiNumberOfBits],
            ruiBits |-> retval]
  ELSE LET numBits == uiNumberOfBits - s.m_num_held_bits
           held == Shl(U32(s.m_held_bits), numBits)
           num_bytes_to_load == (numBits - 1) \div 8
       IN  IF ~(s.m_fifo_idx + num_bytes_to_load < Len(s.m_fifo))
           THEN [ok |-> FALSE, s |-> s, ruiBits |-> Zero32]
           ELSE LET aligned_word == LoadWord(s.m_fifo, s.m_fifo_idx, num_bytes_to_load)
                    next_num_held_bits == (32 - numBits) % 8
                IN  [ok |-> TRUE,
                     s |-> [s EXCEPT !.m_fifo_idx = @ + num_bytes_to_load + 1,
                                     !.m_num_held_bits = next_num_held_bits,
                                     !.m_held_bits = U8(aligned_word)],
                     ruiBits |-> BitOr(held, Shr(aligned_word, next_num_held_bits))]

\* mutant: the loaded word is not stored in m_held_bits
read_HeldNotStored(s, uiNumberOfBits) ==
  IF ~(uiNumberOfBits <= 32) THEN [ok |-> FALSE, s |-> s, ruiBits |-> Zero32]
  ELSE
  IF uiNumberOfBits <= s.m_num_held_bits
  THEN LET retval == BitAnd(Shr(U32(s.m_held_bits), s.m_num_held_bits - uiNumberOfBits),
                            BitNot(Shl(U32(255), uiNumberOfBits)))
       IN  [ok |-> TRUE,
            s |-> [s EXCEPT !.m_num_held_bits = @ - uiNumberOfBits],
            ruiBits |-> retval]
  ELSE LET numBits == uiNumberOfBits - s.m_num_held_bits
           held == Shl(BitAnd(U32(s.m_held_bits), BitNot(Shl(U32(255), s.m_num_held_bits))),
                       numBits)
           num_bytes_to_load == (numBits - 1) \div 8
       IN  IF ~(s.m_fifo_idx + num_bytes_to_load < Len(s.m_fifo))
           THEN [ok |-> FALSE, s |-> s, ruiBits |-> Zero32]
           ELSE LET aligned_word == LoadWord(s.m_fifo, s.m_fifo_idx, num_bytes_to_load)
                    next_num_held_bits == (32 - numBits) % 8
                IN  [ok |-> TRUE,
                     s |-> [s EXCEPT !.m_fifo_idx = @ + num_bytes_to_load + 1,
                                     !.m_num_held_bits = next_num_held_bits],
                     ruiBits |-> BitOr(held, Shr(aligned_word, next_num_held_bits))]

\* mutant: the cursor advances by num_bytes_to_load, one byte short
read_IdxShort(s, uiNumberOfBits) ==
  IF ~(uiNumberOfBits <= 32) THEN [ok |-> FALSE, s |-> s, ruiBits |-> Zero32]
  ELSE
  IF uiNumberOfBits <= s.m_num_held_bits
  THEN LET retval == BitAnd(Shr(U32(s.m_held_bits), s.m_num_held_bits - uiNumberOfBits),
                            BitNot(Shl(U32(255), uiNumberOfBits)))
       IN  [ok |-> TRUE,
            s |-> [s EXCEPT !.m_num_held_bits = @ - uiNumberOfBits],
            ruiBits |-> retval]
  ELSE LET numBits == uiNumberOfBits - s.m_num_held_bits
           held == Shl(BitAnd(U32(s.m_held_bits), BitNot(Shl(U32(255), s.m_num_held_bits))),
                       numBits)
           num_bytes_to_load == (numBits - 1) \div 8
       IN  IF ~(s.m_fifo_idx + num_bytes_to_load < Len(s.m_fifo))
           THEN [ok |-> FALSE, s |-> s, ruiBits |-> Zero32]
           ELSE LET aligned_word == LoadWord(s.m_fifo, s.m_fifo_idx, num_bytes_to_load)
                    next_num_held_bits == (32 - numBits) % 8
                IN  [ok |-> TRUE,
                     s |-> [s EXCEPT !.m_fifo_idx = @ + num_bytes_to_load,
                                     !.m_num_held_bits = next_num_held_bits,
                                     !.m_held_bits = U8(aligned_word)],
                     ruiBits |-> BitOr(held, Shr(aligned_word, next_num_held_bits))]

\* mutant: the bounds assert demands one byte more than the read loads
read_AssertStrict(s, uiNumberOfBits) ==
  IF ~(uiNumberOfBits <= 32) THEN [ok |-> FALSE, s |-> s, ruiBits |-> Zero32]
  ELSE
  IF uiNumberOfBits <= s.m_num_held_bits
  THEN LET retval == BitAnd(Shr(U32(s.m_held_bits), s.m_num_held_bits - uiNumberOfBits),
                            BitNot(Shl(U32(255), uiNumberOfBits)))
       IN  [ok |-> TRUE,
            s |-> [s EXCEPT !.m_num_held_bits = @ - uiNumberOfBits],
            ruiBits |-> retval]
  ELSE LET numBits == uiNumberOfBits - s.m_num_held_bits
           held == Shl(BitAnd(U32(s.m_held_bits), BitNot(Shl(U32(255), s.m_num_held_bits))),
                       numBits)
           num_bytes_to_load == (numBits - 1) \div 8
       IN  IF ~(s.m_fifo_idx + num_bytes_to_load + 1 < Len(s.m_fifo))
           THEN [ok |-> FALSE, s |-> s, ruiBits |-> Zero32]
           ELSE LET aligned_word == LoadWord(s.m_fifo, s.m_fifo_idx, num_bytes_to_load)
                    next_num_held_bits == (32 - numBits) % 8
                IN  [ok |-> TRUE,
                     s |-> [s EXCEPT !.m_fifo_idx = @ + num_bytes_to_load + 1,
                                     !.m_num_held_bits = next_num_held_bits,
                                     !.m_held_bits = U8(aligned_word)],
                     ruiBits |-> BitOr(held, Shr(aligned_word, next_num_held_bits))]

\* read: [ok |-> no assert failed, s |-> the reader afterwards, ruiBits |-> the result]
read(s, uiNumberOfBits) ==
  IF ~(uiNumberOfBits <= 32) THEN [ok |-> FALSE, s |-> s, ruiBits |-> Zero32]
  ELSE
  IF uiNumberOfBits <= s.m_num_held_bits
  THEN LET retval == BitAnd(Shr(U32(s.m_held_bits), s.m_num_held_bits - uiNumberOfBits),
                            BitNot(Shl(U32(255), uiNumberOfBits)))
       IN  [ok |-> TRUE,
            s |-> [s EXCEPT !.m_num_held_bits = @ - uiNumberOfBits],
            ruiBits |-> retval]
  ELSE LET numBits == uiNumberOfBits - s.m_num_held_bits
           held == Shl(BitAnd(U32(s.m_held_bits), BitNot(Shl(U32(255), s.m_num_held_bits))),
                       numBits)
           num_bytes_to_load == (numBits - 1) \div 8
       IN  IF ~(s.m_fifo_idx + num_bytes_to_load < Len(s.m_fifo))
           THEN [ok |-> FALSE, s |-> s, ruiBits |-> Zero32]
           ELSE LET aligned_word == LoadWord(s.m_fifo, s.m_fifo_idx, num_bytes_to_load)
                    next_num_held_bits == (32 - numBits) % 8
                IN  [ok |-> TRUE,
                     s |-> [s EXCEPT !.m_fifo_idx = @ + num_bytes_to_load + 1,
                                     !.m_num_held_bits = next_num_held_bits,
                                     !.m_held_bits = U8(aligned_word)],
                     ruiBits |-> BitOr(held, Shr(aligned_word, next_num_held_bits))]

\* mutant: m_held_bits is not restored
pseudoRead_KeepsHeld(s, uiNumberOfBits) ==
  LET saved_num_held_bits == s.m_num_held_bits
      saved_fifo_idx == s.m_fifo_idx
      num_bits_to_read == Min(uiNumberOfBits, getNumBitsLeft(s))
      rd == read(s, num_bits_to_read)
  IN  [ok |-> rd.ok,
       s |-> IF rd.ok
             THEN [rd.s EXCEPT !.m_fifo_idx = saved_fifo_idx,
                               !.m_num_held_bits = saved_num_held_bits]
             ELSE s,
       ruiBits |-> Shl(rd.ruiBits, uiNumberOfBits - num_bits_to_read)]

\* mutant: m_fifo_idx is not restored
pseudoRead_KeepsIdx(s, uiNumberOfBits) ==
  LET saved_num_held_bits == s.m_num_held_bits
      saved_held_bits == s.m_held_bits
      num_bits_to_read == Min(uiNumberOfBits, getNumBitsLeft(s))
      rd == read(s, num_bits_to_read)
  IN  [ok |-> rd.ok,
       s |-> IF rd.ok
             THEN [rd.s EXCEPT !.m_held_bits = saved_held_bits,
                               !.m_num_held_bits = saved_num_held_bits]
             ELSE s,
       ruiBits |-> Shl(rd.ruiBits, uiNumberOfBits - num_bits_to_read)]

\* mutant: the result is not shifted up to the width asked for
pseudoRead_NoPad(s, uiNumberOfBits) ==
  LET saved_num_held_bits == s.m_num_held_bits
      saved_held_bits == s.m_held_bits
      saved_fifo_idx == s.m_fifo_idx
      num_bits_to_read == Min(uiNumberOfBits, getNumBitsLeft(s))
      rd == read(s, num_bits_to_read)
  IN  [ok |-> rd.ok,
       s |-> IF rd.ok
             THEN [rd.s EXCEPT !.m_fifo_idx = saved_fifo_idx,
                               !.m_held_bits = saved_held_bits,
                               !.m_num_held_bits = saved_num_held_bits]
             ELSE s,
       ruiBits |-> rd.ruiBits]

\* pseudoRead: as read
pseudoRead(s, uiNumberOfBits) ==
  LET saved_num_held_bits == s.m_num_held_bits
      saved_held_bits == s.m_held_bits
      saved_fifo_idx == s.m_fifo_idx
      num_bits_to_read == Min(uiNumberOfBits, getNumBitsLeft(s))
      rd == read(s, num_bits_to_read)
  IN  [ok |-> rd.ok,
       s |-> IF rd.ok
             THEN [rd.s EXCEPT !.m_fifo_idx = saved_fifo_idx,
                               !.m_held_bits = saved_held_bits,
                               !.m_num_held_bits = saved_num_held_bits]
             ELSE s,
       ruiBits |-> Shl(rd.ruiBits, uiNumberOfBits - num_bits_to_read)]

\* ---------------------------------------------------------------- the caller's inputs
\* the low n bits of the byte pattern p repeated
Val(p, n) ==
  [i \in 1..32 |-> IF 32 - i < n THEN (p \div Pow2((32 - i) % 8)) % 2 ELSE 0]

Patterns == {202, 53}                 \* 11001010 and its complement 00110101
WriteWidths == {0, 1, 3, 7, 8, 13, 25, 32}
WriteArgs == {<<Val(202, n), n>> : n \in WriteWidths}
               \cup {<<Val(53, n), n>> : n \in {1, 3, 32}}
\* what the writers of a splice are written with: 11001010, 11001010 00110101, 101
\* a call outside write's contract, numBits = 33
WideArgs == {<<U32(1), 33>>}
\* what writer A is written with when it is written alone
AnyArgs == WriteArgs \cup WideArgs
SpliceArgs == {<<U32(202), 8>>, <<U32(51765), 16>>, <<Val(53, 3), 3>>}
Budget(t) == IF t = "A" THEN MaxOps ELSE MaxSrcOps

ReadWidths == {0, 1, 13, 32}
\* the widths read is called with: those, and one outside read's contract
AnyWidths == ReadWidths \cup {33}
\* the buffers a reader is constructed over: the prefixes of a byte sequence
\* with no two bytes alike (202, 37, 128, 219, 54, ...), and their complements
BufByte(i) == (202 + 91 * (i - 1)) % 256
Buffers == {[i \in 1..n |-> BufByte(i)] : n \in 0..MaxBuf}
             \cup {[i \in 1..n |-> 255 - BufByte(i)] : n \in 0..MaxBuf}

Call(op, bits, n) == [op |-> op, bits |-> bits, n |-> n]

\* a call made on the reader: before is the reader as the call found it; a read
\* that immediately follows a pseudoRead of the same width (follows) keeps what
\* that pseudoRead returned (peeked) and the reader as the pseudoRead found it
ReaderCall(op, n, follows, peeked, before) ==
  [op |-> op, n |-> n, follows |-> follows, peeked |-> peeked, before |-> before]
NoCall == ReaderCall("none", 0, FALSE, Zero32, NewReader(<< >>))

\* ---------------------------------------------------------------- writer actions
Write(t, args) ==
  /\ pc = "writing"
  /\ Len(wlog[t]) < Budget(t)
  /\ \E a \in args :
       LET res == write(w[t], a[1], a[2])
       IN  /\ w' = [w EXCEPT ![t] = res.s]
           /\ pc' = IF res.ok THEN pc ELSE "aborted"
           /\ wlog' = [wlog EXCEPT ![t] = Append(@, Call("write", a[1], a[2]))]
  /\ UNCHANGED <<r, ruiBits, rlog, last, consumed, wideShift>>

WriteAlignOne(t) ==
  /\ pc = "writing"
  /\ Len(wlog[t]) < Budget(t)
  /\ w' = [w EXCEPT ![t] = writeAlignOne(w[t])]
  /\ wlog' = [wlog EXCEPT ![t] = Append(@, Call("writeAlignOne", Zero32, 0))]
  /\ UNCHANGED <<r, ruiBits, rlog, last, consumed, pc, wideShift>>

WriteAlignZero(t) ==
  /\ pc = "writing"
  /\ Len(wlog[t]) < Budget(t)
  /\ w' = [w EXCEPT ![t] = writeAlignZero(w[t])]
  /\ wlog' = [wlog EXCEPT ![t] = Append(@, Call("writeAlignZero", Zero32, 0))]
  /\ UNCHANGED <<r, ruiBits, rlog, last, consumed, pc, wideShift>>

Clear(t) ==
  /\ pc = "writing"
  /\ Len(wlog[t]) < Budget(t)
  /\ w' = [w EXCEPT ![t] = clear(w[t])]
  /\ wlog' = [wlog EXCEPT ![t] = Append(@, Call("clear", Zero32, 0))]
  /\ UNCHANGED <<r, ruiBits, rlog, last, consumed, pc, wideShift>>

\* A.insertAt(B, pos), pos within A's buffer
InsertAt ==
  /\ pc = "writing"
  /\ Len(wlog["A"]) < Budget("A")
  /\ \E pos \in 0..Len(w["A"].m_fifo) :
       LET res == insertAt(w["A"], w["B"], pos)
       IN  /\ w' = [w EXCEPT !["A"] = res.s, !["B"] = res.src]
           /\ pc' = IF res.ok THEN pc ELSE "aborted"
           /\ wlog' = [wlog EXCEPT !["A"] = Append(@, Call("insertAt", Zero32, pos))]
  /\ UNCHANGED <<r, ruiBits, rlog, last, consumed, wideShift>>

\* ---------------------------------------------------------------- reader actions
\* a reader is constructed over writer A's byte buffer; the writer is left alone from then on
Attach ==
  /\ pc = "writing"
  /\ r' = NewReader(w["A"].m_fifo)
  /\ pc' = "reading"
  /\ UNCHANGED <<w, wlog, ruiBits, rlog, last, consumed, wideShift>>

ReadStep(n) ==
  LET res == read(r, n)
      follows == last.op = "pseudoRead" /\ last.n = n
  IN  /\ last' = IF follows THEN ReaderCall("read", n, TRUE, ruiBits, last.before)
                  ELSE ReaderCall("read", n, FALSE, Zero32, r)
      /\ IF res.ok
         THEN /\ r' = res.s
              /\ ruiBits' = res.ruiBits
              /\ consumed' = consumed + n
              /\ pc' = pc
         ELSE /\ pc' = "aborted"
              /\ UNCHANGED <<r, ruiBits, consumed>>

\* the round trip: the reader reads the width of the next write not yet read back
WritesOf(log) == SelectSeq(log, LAMBDA c : c.op = "write")

ReadNext ==
  /\ pc = "reading"
  /\ Len(rlog) < Len(WritesOf(wlog["A"]))
  /\ ReadStep(WritesOf(wlog["A"])[Len(rlog) + 1].n)
  /\ rlog' = IF pc' = "reading" THEN Append(rlog, ruiBits') ELSE rlog
  /\ UNCHANGED <<w, wlog, wideShift>>

Read ==
  /\ pc = "reading"
  /\ \E n \in AnyWidths : ReadStep(n)
  /\ UNCHANGED <<w, wlog, rlog, wideShift>>

PseudoRead ==
  /\ pc = "reading"
  /\ \E n \in ReadWidths :
       LET res == pseudoRead(r, n)
       IN  /\ last' = ReaderCall("pseudoRead", n, FALSE, Zero32, r)
           /\ IF res.ok
              THEN /\ r' = res.s
                   /\ ruiBits' = res.ruiBits
                   /\ pc' = pc
              ELSE /\ pc' = "aborted"
                   /\ UNCHANGED <<r, ruiBits>>
  /\ UNCHANGED <<w, wlog, rlog, consumed, wideShift>>

\* ---------------------------------------------------------------- specifications
Init ==
  /\ w = [t \in Writers |-> NewWriter]
  /\ wlog = [t \in Writers |-> << >>]
  /\ r = NewReader(<< >>)
  /\ ruiBits = Zero32
  /\ rlog = << >>
  /\ last = NoCall
  /\ consumed = 0
  /\ pc = "writing"
  /\ wideShift \in {"wrap", "zero"}

\* the round trip: writer A is written and aligned, a reader reads it back
Next ==
  \/ Write("A", WriteArgs)
  \/ WriteAlignOne("A")
  \/ WriteAlignZero("A")
  \/ Attach
  \/ ReadNext

Spec == Init /\ [][Next]_vars

\* one writer
NextW ==
  \/ Write("A", AnyArgs)
  \/ WriteAlignOne("A")
  \/ WriteAlignZero("A")
  \/ Clear("A")

SpecW == Init /\ [][NextW]_vars

\* two writers, one spliced into the other
NextI ==
  \/ \E t \in Writers : Write(t, SpliceArgs)
  \/ \E t \in Writers : WriteAlignOne(t)
  \/ \E t \in Writers : WriteAlignZero(t)
  \/ \E t \in Writers : Clear(t)
  \/ InsertAt

SpecI == Init /\ [][NextI]_vars

\* a reader over a caller's buffer
InitR ==
  /\ w = [t \in Writers |-> NewWriter]
  /\ wlog = [t \in Writers |-> << >>]
  /\ \E buf \in Buffers : r = NewReader(buf)
  /\ ruiBits = Zero32
  /\ rlog = << >>
  /\ last = NoCall
  /\ consumed = 0
  /\ pc = "reading"
  /\ wideShift \in {"wrap", "zero"}

NextR ==
  \/ Read
  \/ PseudoRead

SpecR == InitR /\ [][NextR]_vars

\* ---------------------------------------------------------------- what the claims speak of
\* the bit string of a byte sequence, each byte most significant bit first
BufBit(fifo, t) == (fifo[(t - 1) \div 8 + 1] \div Pow2(7 - ((t - 1) % 8))) % 2
BufBits(fifo) == [t \in 1..8 * Len(fifo) |-> BufBit(fifo, t)]

\* the n-bit representation of the word v, most significant bit first
FieldBits(v, n) == [j \in 1..n |-> v[32 - n + j]]

\* the top k bits of a byte, most significant first
TopBits(b, k) == [j \in 1..k |-> (b \div Pow2(8 - j)) % 2]

\* the word that holds a string of at most 32 bits right-justified
WordOf(bits) ==
  [i \in 1..32 |-> IF i > 32 - Len(bits) THEN bits[i - (32 - Len(bits))] ELSE 0]

Front(q) == SubSeq(q, 1, Len(q) - 1)
Final(q) == q[Len(q)]

IsAlign(c) == c.op \in {"writeAlignZero", "writeAlignOne"}
\* every write of a history is within write's contract, numBits in 0..32
InContract(log) == \A i \in 1..Len(log) : log[i].op = "write" => log[i].n \in 0..32
OnlyWrites(log) == \A i \in 1..Len(log) : log[i].op = "write"
WritesAndAligns(log) == \A i \in 1..Len(log) : log[i].op = "write" \/ IsAlign(log[i])

\* the fields of the write calls of a history, concatenated in call order
RECURSIVE WrittenBits(_)
WrittenBits(log) ==
  IF log = << >> THEN << >>
  ELSE WrittenBits(Front(log)) \o FieldBits(Final(log).bits, Final(log).n)

\* the sum of the widths of the write calls of a history
RECURSIVE SumWidths(_)
SumWidths(log) ==
  IF log = << >> THEN 0
  ELSE SumWidths(Front(log)) + (IF Final(log).op = "write" THEN Final(log).n ELSE 0)

\* the padding bits the align calls of a history add: each brings the bits
\* before it up to the next multiple of 8
RECURSIVE PadBits(_)
PadBits(log) ==
  IF log = << >> THEN 0
  ELSE PadBits(Front(log))
         + (IF IsAlign(Final(log))
            THEN (8 - ((SumWidths(Front(log)) + PadBits(Front(log))) % 8)) % 8
            ELSE 0)

\* ---------------------------------------------------------------- C2
\* C2 (SpecW): after write calls alone, of 0..32 bits, on an empty writer, the buffer bytes,
\* each most significant bit first, followed by the top numHeldBits bits of
\* heldBits, are the fields of the calls, most significant bit first, in call order.
C2_WriterLayout ==
  (OnlyWrites(wlog["A"]) /\ InContract(wlog["A"])) =>
    BufBits(w["A"].m_fifo) \o TopBits(w["A"].m_held_bits, w["A"].m_num_held_bits)
      = WrittenBits(wlog["A"])

\* three writes, the last of 32 bits onto 4 held bits: 4 bytes pushed, 4 bits held
C2_Witness ==
  /\ OnlyWrites(wlog["A"])
  /\ Len(wlog["A"]) = 3
  /\ wlog["A"][3].n = 32
  /\ wlog["A"][3].bits = Val(53, 32)
  /\ Len(w["A"].m_fifo) = 4
  /\ w["A"].m_num_held_bits = 4
  /\ BufBits(w["A"].m_fifo) \o TopBits(w["A"].m_held_bits, 4) = WrittenBits(wlog["A"])

\* ---------------------------------------------------------------- C8
\* C8 (SpecW): after write, writeAlignZero and writeAlignOne calls on an empty
\* writer, every write of 0..32 bits, the widths written plus the padding bits of the align calls are
\* 8 * getByteStreamLength() + numHeldBits, and 8 * getByteStreamLength() when
\* the last call is an align.
C8_BitCount ==
  (WritesAndAligns(wlog["A"]) /\ InContract(wlog["A"])) =>
    /\ SumWidths(wlog["A"]) + PadBits(wlog["A"])
         = 8 * getByteStreamLength(w["A"]) + w["A"].m_num_held_bits
    /\ (wlog["A"] # << >> /\ IsAlign(Final(wlog["A"]))) =>
         SumWidths(wlog["A"]) + PadBits(wlog["A"]) = 8 * getByteStreamLength(w["A"])

\* 13 bits written, 3 bits of padding, 25 bits written: 5 bytes and 1 held bit
C8_Witness ==
  /\ Len(wlog["A"]) = 3
  /\ wlog["A"][1].op = "write"
  /\ wlog["A"][2].op = "writeAlignOne"
  /\ wlog["A"][3].op = "write"
  /\ SumWidths(wlog["A"]) = 38
  /\ PadBits(wlog["A"]) = 3
  /\ getByteStreamLength(w["A"]) = 5
  /\ w["A"].m_num_held_bits = 1

\* ---------------------------------------------------------------- C9
\* C9 (SpecW): from every reachable writer state, writeAlignZero twice leaves
\* what writeAlignZero once leaves, and so for writeAlignOne; after an align
\* call, the same call again changes nothing.
C9_AlignIdempotent ==
  /\ writeAlignZero(writeAlignZero(w["A"])) = writeAlignZero(w["A"])
  /\ writeAlignOne(writeAlignOne(w["A"])) = writeAlignOne(w["A"])
  /\ (wlog["A"] # << >> /\ Final(wlog["A"]).op = "writeAlignZero") =>
       writeAlignZero(w["A"]) = w["A"]
  /\ (wlog["A"] # << >> /\ Final(wlog["A"]).op = "writeAlignOne") =>
       writeAlignOne(w["A"]) = w["A"]

\* 3 bits written, then writeAlignZero twice: one byte
C9_Witness ==
  /\ Len(wlog["A"]) = 3
  /\ wlog["A"][1] = Call("write", Val(53, 3), 3)
  /\ wlog["A"][2].op = "writeAlignZero"
  /\ wlog["A"][3].op = "writeAlignZero"
  /\ w["A"] = [m_fifo |-> << 160 >>, m_held_bits |-> 0, m_num_held_bits |-> 0]

\* ---------------------------------------------------------------- C7
Aligned(s) == s.m_num_held_bits = 0

\* a[0:p] ++ b ++ a[p:]
Spliced(a, b, p) ==
  [i \in 1..Len(a) + Len(b) |->
     IF i <= p THEN a[i] ELSE IF i <= p + Len(b) THEN b[i - p] ELSE a[i - Len(b)]]

\* C7 (SpecI): for byte-aligned writers A and B and every p in 0..length(A),
\* A.insertAt(B, p) leaves in A's buffer A_old[0:p] ++ B[:] ++ A_old[p:], leaves
\* B as it was, and leaves A's heldBits and numHeldBits as they were.
C7_Splice ==
  (Aligned(w["A"]) /\ Aligned(w["B"])) =>
    \A p \in 0..Len(w["A"].m_fifo) :
      LET res == insertAt(w["A"], w["B"], p)
      IN  /\ res.ok
          /\ res.s.m_fifo = Spliced(w["A"].m_fifo, w["B"].m_fifo, p)
          /\ res.src = w["B"]
          /\ res.s.m_held_bits = w["A"].m_held_bits
          /\ res.s.m_num_held_bits = w["A"].m_num_held_bits

\* B = 202 53 inserted at byte 1 of A = 202 53
C7_Witness ==
  /\ pc = "writing"
  /\ Len(wlog["A"]) = 2
  /\ wlog["A"][1] = Call("write", U32(51765), 16)
  /\ wlog["A"][2] = Call("insertAt", Zero32, 1)
  /\ w["B"].m_fifo = << 202, 53 >>
  /\ Aligned(w["B"])
  /\ w["A"] = [m_fifo |-> << 202, 202, 53, 53 >>, m_held_bits |-> 0, m_num_held_bits |-> 0]

\* ---------------------------------------------------------------- C1
\* writes of widths 1..32, then one align call
RoundTripShape(log) ==
  /\ Len(log) >= 1
  /\ IsAlign(Final(log))
  /\ \A i \in 1..Len(log) - 1 : log[i].op = "write" /\ log[i].n \in 1..32

\* C1 (Spec): after writes of widths 1..32 and one writeAlignZero or
\* writeAlignOne, a reader over the writer's buffer that reads the same widths
\* in the same order never fails and returns the values written, in order.
C1_RoundTrip ==
  (pc # "writing" /\ RoundTripShape(wlog["A"])) =>
    /\ pc = "reading"
    /\ Len(rlog) <= Len(wlog["A"]) - 1
    /\ \A i \in 1..Len(rlog) : rlog[i] = wlog["A"][i].bits

\* 13 bits and 32 bits written, aligned with ones, and both read back
C1_Witness ==
  /\ pc = "reading"
  /\ Len(wlog["A"]) = 3
  /\ wlog["A"][1] = Call("write", Val(202, 13), 13)
  /\ wlog["A"][2] = Call("write", Val(53, 32), 32)
  /\ wlog["A"][3].op = "writeAlignOne"
  /\ rlog = << Val(202, 13), Val(53, 32) >>

\* ---------------------------------------------------------------- C10
\* the n bits of the buffer after its first `from` bits, the buffer extended by zero bits
BitsFrom(fifo, from, n) ==
  [j \in 1..n |-> IF from + j <= 8 * Len(fifo) THEN BufBit(fifo, from + j) ELSE 0]

\* C10 (Spec): write(0b101, 3), write(0b11001010, 8), writeAlignZero() on an
\* empty writer leave the bytes 10111001 01000000 and no held bits; a reader
\* over them reads 0b101 for read(3) and 0b11001010 for read(8), and then 5
\* unread bits remain, all zero.
C10_Scenario ==
  wlog["A"] = << Call("write", U32(5), 3), Call("write", U32(202), 8),
                 Call("writeAlignZero", Zero32, 0) >> =>
    /\ w["A"] = [m_fifo |-> << 185, 64 >>, m_held_bits |-> 0, m_num_held_bits |-> 0]
    /\ pc # "aborted"
    /\ Len(rlog) >= 1 => rlog[1] = U32(5)
    /\ Len(rlog) = 2 =>
         /\ rlog[2] = U32(202)
         /\ 8 * (Len(r.m_fifo) - r.m_fifo_idx) + r.m_num_held_bits = 5
         /\ 8 * Len(r.m_fifo) - consumed = 5
         /\ BitsFrom(r.m_fifo, consumed, 5) = << 0, 0, 0, 0, 0 >>
         /\ read(r, 5).ok /\ read(r, 5).ruiBits = Zero32

C10_Witness ==
  /\ wlog["A"] = << Call("write", U32(5), 3), Call("write", U32(202), 8),
                    Call("writeAlignZero", Zero32, 0) >>
  /\ pc = "reading"
  /\ r.m_fifo = << 185, 64 >>
  /\ rlog = << U32(5), U32(202) >>
  /\ r.m_num_held_bits = 5

\* ---------------------------------------------------------------- C3
\* C3 (SpecR): a read(numBits), numBits in 0..32, that stays within the buffer
\* returns, right-justified, the numBits bits of the buffer's bit string that
\* start at the offset that is the sum of the widths of the earlier reads.
C3_ReaderLayout ==
  /\ \A n \in 0..32 :
       consumed + n <= 8 * Len(r.m_fifo) =>
         /\ read(r, n).ok
         /\ read(r, n).ruiBits = WordOf(BitsFrom(r.m_fifo, consumed, n))
  /\ (last.op = "read" /\ pc = "reading") =>
       ruiBits = WordOf(BitsFrom(r.m_fifo, consumed - last.n, last.n))

\* 3 bits read, then read(32): it finds 5 held bits and loads 4 bytes
C3_Witness ==
  /\ pc = "reading"
  /\ last.op = "read"
  /\ last.n = 32
  /\ consumed = 35
  /\ r.m_fifo_idx = 5
  /\ r.m_num_held_bits = 5
  /\ ruiBits = WordOf(BitsFrom(r.m_fifo, 3, 32))

\* ---------------------------------------------------------------- C4
\* C4 as claimed (SpecR): a read that immediately follows a pseudoRead of the
\* same width, whatever the reader state and the width, returns what the
\* pseudoRead returned and leaves the reader where a single read would have.
C4_LookaheadAnyWidth ==
  (last.op = "read" /\ last.follows) =>
    /\ pc = "reading"
    /\ ruiBits = last.peeked
    /\ r = read(last.before, last.n).s

\* C4 as amended (SpecR): so it is for every width that does not exceed the
\* number of unread bits, 8 * (bufferLength - cursorIndex) + numHeldBits.
C4_Lookahead ==
  /\ \A n \in 0..32 :
       n <= 8 * (Len(r.m_fifo) - r.m_fifo_idx) + r.m_num_held_bits =>
         LET p == pseudoRead(r, n)
             rd == read(p.s, n)
         IN  /\ p.ok
             /\ rd.ok
             /\ rd.ruiBits = p.ruiBits
             /\ rd.s = read(r, n).s
  /\ (last.op = "read" /\ last.follows /\ pc = "reading") =>
       /\ ruiBits = last.peeked
       /\ r = read(last.before, last.n).s

\* pseudoRead(13) then read(13) on 5 held bits: two bytes loaded
C4_Witness ==
  /\ pc = "reading"
  /\ last.op = "read"
  /\ last.follows
  /\ last.n = 13
  /\ last.before.m_num_held_bits = 5
  /\ r.m_fifo_idx = last.before.m_fifo_idx + 1
  /\ ruiBits = last.peeked
  /\ ruiBits # Zero32

\* ---------------------------------------------------------------- C5
\* C5 (SpecR): for every reachable reader state and numBits in 0..32, after
\* pseudoRead the cursor, heldBits, numHeldBits and the buffer are as before.
C5_PseudoReadRestores ==
  /\ \A n \in 0..32 : pseudoRead(r, n).s = r
  /\ last.op = "pseudoRead" => r = last.before

\* a pseudoRead(32) on 5 held bits, which loads 4 bytes
C5_Witness ==
  /\ pc = "reading"
  /\ last.op = "pseudoRead"
  /\ last.n = 32
  /\ r = last.before
  /\ r.m_num_held_bits = 5
  /\ r.m_fifo_idx = 1
  /\ Len(r.m_fifo) = 5
  /\ ruiBits # Zero32

\* ---------------------------------------------------------------- C6
\* C6 (SpecR): with L = 8 * (bufferLength - cursorIndex) + numHeldBits unread
\* bits, pseudoRead(numBits), numBits in 0..32, never fails read's assert and
\* returns the next min(numBits, L) unread bits shifted left by
\* numBits - min(numBits, L): what a read of the buffer extended by zero bits returns.
C6_PseudoReadPads ==
  /\ \A n \in 0..32 :
       LET L == 8 * (Len(r.m_fifo) - r.m_fifo_idx) + r.m_num_held_bits
           m == Min(n, L)
           p == pseudoRead(r, n)
       IN  /\ p.ok
           /\ p.ruiBits = WordOf(BitsFrom(r.m_fifo, consumed, m) \o [j \in 1..n - m |-> 0])
           /\ p.ruiBits = WordOf(BitsFrom(r.m_fifo, consumed, n))
  /\ last.op = "pseudoRead" =>
       /\ pc = "reading"
       /\ ruiBits = WordOf(BitsFrom(r.m_fifo, consumed, last.n))

\* a pseudoRead(32) with 5 unread bits, not all zero
C6_Witness ==
  /\ pc = "reading"
  /\ last.op = "pseudoRead"
  /\ last.n = 32
  /\ 8 * (Len(r.m_fifo) - r.m_fifo_idx) + r.m_num_held_bits = 5
  /\ ruiBits = WordOf(BitsFrom(r.m_fifo, consumed, 5) \o [j \in 1..27 |-> 0])
  /\ ruiBits # Zero32

\* ---------------------------------------------------------------- C11
\* the low k bits of a byte, most significant first
LowBits(b, k) == [j \in 1..k |-> (b \div Pow2(k - j)) % 2]

\* C11 (SpecW): from every reachable writer state with k held bits,
\* writeAlignOne changes nothing if k = 0; if k is in 1..7 it appends one byte
\* whose top k bits are the held bits and whose low 8 - k bits are all 1, and
\* leaves numHeldBits = 0 and heldBits = 0.  write(1, 1), writeAlignOne() on an
\* empty writer leave the one byte 11111111.
C11_AlignOnePads ==
  LET s == w["A"]
      k == s.m_num_held_bits
      t == writeAlignOne(s)
  IN  /\ k = 0 => t = s
      /\ k \in 1..7 =>
           /\ Len(t.m_fifo) = Len(s.m_fifo) + 1
           /\ SubSeq(t.m_fifo, 1, Len(s.m_fifo)) = s.m_fifo
           /\ TopBits(Final(t.m_fifo), k) = TopBits(s.m_held_bits, k)
           /\ LowBits(Final(t.m_fifo), 8 - k) = [j \in 1..8 - k |-> 1]
           /\ t.m_num_held_bits = 0
           /\ t.m_held_bits = 0
      /\ wlog["A"] = << Call("write", U32(1), 1), Call("writeAlignOne", Zero32, 0) >> =>
           s = [m_fifo |-> << 255 >>, m_held_bits |-> 0, m_num_held_bits |-> 0]

\* 13 bits written, then writeAlignOne: the second byte is 01010 111
C11_Witness ==
  /\ wlog["A"] = << Call("write", Val(202, 13), 13), Call("writeAlignOne", Zero32, 0) >>
  /\ w["A"] = [m_fifo |-> << 86, 87 >>, m_held_bits |-> 0, m_num_held_bits |-> 0]

\* ---------------------------------------------------------------- C12
\* C12 (SpecW): from every reachable writer state with k held bits,
\* writeAlignZero changes nothing if k = 0; if k is in 1..7 it appends one byte
\* whose top k bits are the held bits and whose low 8 - k bits are all 0, and
\* leaves numHeldBits = 0 and heldBits = 0.
C12_AlignZeroPads ==
  LET s == w["A"]
      k == s.m_num_held_bits
      t == writeAlignZero(s)
  IN  /\ k = 0 => t = s
      /\ k \in 1..7 =>
           /\ Len(t.m_fifo) = Len(s.m_fifo) + 1
           /\ SubSeq(t.m_fifo, 1, Len(s.m_fifo)) = s.m_fifo
           /\ TopBits(Final(t.m_fifo), k) = TopBits(s.m_held_bits, k)
           /\ LowBits(Final(t.m_fifo), 8 - k) = [j \in 1..8 - k |-> 0]
           /\ t.m_num_held_bits = 0
           /\ t.m_held_bits = 0

\* 13 bits written, then writeAlignZero: the second byte is 01010 000
C12_Witness ==
  /\ wlog["A"] = << Call("write", Val(202, 13), 13), Call("writeAlignZero", Zero32, 0) >>
  /\ w["A"] = [m_fifo |-> << 86, 80 >>, m_held_bits |-> 0, m_num_held_bits |-> 0]

\* ---------------------------------------------------------------- C13
\* C13 (SpecI): for every reachable target A, source B and byte position, if B
\* holds 1..7 unflushed bits then insertAt fails its assertion and leaves A's
\* buffer and held state and B as they were; if B's written-bit count is a
\* multiple of 8 the assertion holds, whatever A's held-bit count.  The run is
\* aborted only by an insertAt from an unaligned source.
C13_InsertAtRejectsUnaligned ==
  /\ \A p \in 0..Len(w["A"].m_fifo) :
       LET res == insertAt(w["A"], w["B"], p)
       IN  /\ w["B"].m_num_held_bits \in 1..7 =>
                ~res.ok /\ res.s = w["A"] /\ res.src = w["B"]
           /\ getNumberOfWrittenBits(w["B"]) % 8 = 0 => res.ok
  /\ pc = "aborted" =>
       /\ w["B"].m_num_held_bits \in 1..7
       /\ Final(wlog["A"]).op = "insertAt"

\* A holds one byte, B holds 3 unflushed bits: the insertAt aborted, A and B are as before
C13_Witness ==
  /\ pc = "aborted"
  /\ wlog["A"] = << Call("write", U32(202), 8), Call("insertAt", Zero32, 1) >>
  /\ wlog["B"] = << Call("write", Val(53, 3), 3) >>
  /\ w["A"] = [m_fifo |-> << 202 >>, m_held_bits |-> 0, m_num_held_bits |-> 0]
  /\ w["B"] = [m_fifo |-> << >>, m_held_bits |-> 160, m_num_held_bits |-> 3]

\* ---------------------------------------------------------------- C14
\* the calls of a history after its last clear (the whole history if it has none)
RECURSIVE SinceClear(_)
SinceClear(log) ==
  IF log = << >> \/ Final(log).op = "clear" THEN << >>
  ELSE Append(SinceClear(Front(log)), Final(log))

\* one logged call of write, writeAlignOne or writeAlignZero applied to a writer
Apply(c, s) ==
  CASE c.op = "write" -> write(s, c.bits, c.n).s
    [] c.op = "writeAlignOne" -> writeAlignOne(s)
    [] c.op = "writeAlignZero" -> writeAlignZero(s)

\* a history of calls applied in order to a freshly constructed writer
RECURSIVE OnFresh(_)
OnFresh(log) ==
  IF log = << >> THEN NewWriter ELSE Apply(Final(log), OnFresh(Front(log)))

HasClear(log) == \E i \in 1..Len(log) : log[i].op = "clear"

\* C14 (SpecW): clear() on any reachable writer leaves the buffer empty,
\* heldBits = 0 and numHeldBits = 0; and after a clear(), whatever was written
\* before it, the writer's buffer and held state are those the calls made since
\* the clear produce on a freshly constructed writer.
C14_ClearResets ==
  /\ clear(w["A"]) = [m_fifo |-> << >>, m_held_bits |-> 0, m_num_held_bits |-> 0]
  /\ HasClear(wlog["A"]) => w["A"] = OnFresh(SinceClear(wlog["A"]))

\* 13 bits written, clear, 3 bits written: only the 3 bits 101 are held
C14_Witness ==
  /\ wlog["A"] = << Call("write", Val(202, 13), 13), Call("clear", Zero32, 0),
                    Call("write", Val(53, 3), 3) >>
  /\ w["A"] = [m_fifo |-> << >>, m_held_bits |-> 160, m_num_held_bits |-> 3]

\* ---------------------------------------------------------------- C15
\* C15 as stated (SpecR): in every reachable reader state the numHeldBits
\* loaded but unconsumed bits are the most significant numHeldBits bits of
\* heldBits.
C15_HeldLeftJustified ==
  TopBits(r.m_held_bits, r.m_num_held_bits)
    = BitsFrom(r.m_fifo, consumed, r.m_num_held_bits)

\* C15 (SpecR): in every reachable reader state the numHeldBits loaded but
\* unconsumed bits are the least significant numHeldBits bits of heldBits,
\* and heldBits is the last byte loaded (0 before any load).
C15_HeldRightJustified ==
  /\ LowBits(r.m_held_bits, r.m_num_held_bits)
       = BitsFrom(r.m_fifo, consumed, r.m_num_held_bits)
  /\ r.m_held_bits = IF r.m_fifo_idx = 0 THEN 0 ELSE r.m_fifo[r.m_fifo_idx]

\* one bit read of a buffer that starts 11001010: 7 bits 1001010 are held, the
\* byte held is still 11001010
C15_Witness ==
  /\ last.op = "read"
  /\ last.n = 1
  /\ consumed = 1
  /\ r.m_fifo[1] = 202
  /\ r.m_num_held_bits = 7
  /\ r.m_held_bits = 202
  /\ LowBits(r.m_held_bits, 7) = << 1, 0, 0, 1, 0, 1, 0 >>
  /\ TopBits(r.m_held_bits, 7) = << 1, 1, 0, 0, 1, 0, 1 >>

\* ---------------------------------------------------------------- C16
\* the cursor and held count of reader state t are those a successful
\* read(n) leaves from reader state s
Advanced(s, n, t) ==
  LET h == s.m_num_held_bits
  IN  IF n <= h
      THEN /\ t.m_fifo_idx = s.m_fifo_idx
           /\ t.m_num_held_bits = h - n
      ELSE t.m_fifo_idx = s.m_fifo_idx + ((n - h - 1) \div 8) + 1

\* C16 (SpecR): in every reachable reader state numHeldBits is in 0..7,
\* cursorIndex <= buffer length, and the sum of the widths of the successful
\* reads is cursorIndex * 8 - numHeldBits; a successful read(numBits) with
\* numBits <= numHeldBits leaves cursorIndex alone and lowers numHeldBits by
\* numBits, and any other successful read advances cursorIndex by
\* ((numBits - numHeldBits - 1) >> 3) + 1.
C16_ReaderPosition ==
  /\ r.m_num_held_bits \in 0..7
  /\ r.m_fifo_idx <= Len(r.m_fifo)
  /\ consumed = r.m_fifo_idx * 8 - r.m_num_held_bits
  /\ \A n \in 0..32 : LET rd == read(r, n) IN rd.ok => Advanced(r, n, rd.s)
  /\ (last.op = "read" /\ pc = "reading") => Advanced(last.before, last.n, r)

\* read(13) with 7 bits held: the cursor moves from byte 1 to byte 2, 2 bits are held
C16_Witness ==
  /\ last.op = "read"
  /\ last.n = 13
  /\ pc = "reading"
  /\ last.before.m_num_held_bits = 7
  /\ last.before.m_fifo_idx = 1
  /\ r.m_fifo_idx = 2
  /\ r.m_num_held_bits = 2
  /\ consumed = 14

\* ---------------------------------------------------------------- C19
\* the unread bits of a reader: 8 * (bufferLength - cursorIndex) + numHeldBits
Unread(s) == 8 * (Len(s.m_fifo) - s.m_fifo_idx) + s.m_num_held_bits

\* C19 (SpecR): from every reachable reader state, read(numBits), numBits in
\* 0..32, fails its bounds assert exactly when numBits exceeds
\* 8 * (bufferLength - cursorIndex) + numHeldBits, and then the reader is as it
\* was; a read of exactly all the unread bits succeeds.
C19_OverrunBoundary ==
  /\ \A n \in 0..32 :
       LET rd == read(r, n)
       IN  /\ ~rd.ok <=> n > Unread(r)
           /\ ~rd.ok => rd.s = r
  /\ Unread(r) <= 32 => read(r, Unread(r)).ok
  /\ pc = "aborted" =>
       /\ last.op = "read"
       /\ last.n <= 32 => last.n > Unread(r)
       /\ ~last.follows => r = last.before

\* 13 of 16 bits read, then read(13): 3 bits are unread, the read aborted and
\* the reader is as it was
C19_Witness ==
  /\ pc = "aborted"
  /\ last.op = "read"
  /\ last.n = 13
  /\ ~last.follows
  /\ Len(r.m_fifo) = 2
  /\ r.m_fifo_idx = 2
  /\ r.m_num_held_bits = 3
  /\ r = last.before

\* ---------------------------------------------------------------- C18
\* a value of every width 0..32, and the values the writers are written with
EveryWidth == WriteArgs \cup {<<Val(202, n), n>> : n \in 0..32}

\* writer state t has the buffer and held count a write of n bits leaves from s
GrowsBy(s, n, t) ==
  LET h == s.m_num_held_bits
  IN  /\ Len(t.m_fifo) = Len(s.m_fifo) + ((n + h) \div 8)
      /\ (n + h) \div 8 \in 0..4
      /\ SubSeq(t.m_fifo, 1, Len(s.m_fifo)) = s.m_fifo
      /\ n + h < 8 => t.m_fifo = s.m_fifo /\ t.m_num_held_bits = n + h

\* C18 (SpecW): from every reachable writer state with h held bits,
\* write(value, numBits), numBits in 0..32, grows the buffer by
\* (numBits + h) >> 3 bytes, which is 0..4, leaves the bytes already in the
\* buffer as they are, and when numBits + h < 8 leaves the buffer unchanged
\* and sets numHeldBits to numBits + h.
C18_BytesPerWrite ==
  \A a \in EveryWidth :
    LET res == write(w["A"], a[1], a[2])
    IN  res.ok /\ GrowsBy(w["A"], a[2], res.s)

\* 7 bits written, then 32: the second write pushed 4 bytes and left 7 bits held
C18_Witness ==
  /\ wlog["A"] = << Call("write", Val(202, 7), 7), Call("write", Val(202, 32), 32) >>
  /\ Len(w["A"].m_fifo) = 4
  /\ w["A"].m_num_held_bits = 7

\* ---------------------------------------------------------------- C17
\* the calls of a history after its last clear or align call
RECURSIVE SinceFlush(_)
SinceFlush(log) ==
  IF log = << >> \/ Final(log).op = "clear" \/ IsAlign(Final(log)) THEN << >>
  ELSE Append(SinceFlush(Front(log)), Final(log))

\* the bits written since the writer was last empty or aligned by a call
Unflushed(log) == WrittenBits(WritesOf(SinceFlush(log)))

\* C17 (SpecI): after any write, writeAlignZero, writeAlignOne, insertAt and
\* clear calls with values that fit their widths, on either writer numHeldBits
\* is in 0..7 and the low 8 - numHeldBits bits of heldBits are zero; the top
\* numHeldBits bits of heldBits are the last numHeldBits bits written, the
\* earliest of them in bit 7.
C17_WriterHeld ==
  \A t \in Writers :
    LET s == w[t]
        k == s.m_num_held_bits
        bits == Unflushed(wlog[t])
    IN  /\ k \in 0..7
        /\ s.m_held_bits \in 0..255
        /\ s.m_held_bits % Pow2(8 - k) = 0
        /\ k = Len(bits) % 8
        /\ TopBits(s.m_held_bits, k) = SubSeq(bits, Len(bits) - k + 1, Len(bits))

\* A: 3 bits, an insertAt of the byte of B, 3 bits: the 6 bits 101 101 are held
C17_Witness ==
  /\ wlog["A"] = << Call("write", Val(53, 3), 3), Call("insertAt", Zero32, 0),
                    Call("write", Val(53, 3), 3) >>
  /\ w["A"] = [m_fifo |-> << 202 >>, m_held_bits |-> 180, m_num_held_bits |-> 6]

====
